---- MODULE Spec2Model ----
(***************************************************************************)
(* A model of the protobuf-parser crate's dependency walker                *)
(* (src/src/parser_with_dependencies.rs) and of the public parser entry    *)
(* point (src/src/lib.rs).                                                 *)
(*                                                                         *)
(* Paths (std::path::Path) are sequences of components.  A protobuf path   *)
(* is the same component sequence: relative_path_to_protobuf_path only     *)
(* rewrites the separator character, which a component sequence does not   *)
(* hold.                                                                   *)
(*                                                                         *)
(* A file on disk is described by what the operating system and the core   *)
(* parser answer for it: whether it exists, whether it can be read, and    *)
(* the result of FileDescriptor::parse on its content (a descriptor with   *)
(* its import_paths, or a parser error).                                   *)
(***************************************************************************)
EXTENDS Integers, Sequences, FiniteSets

\* ------------------------------------------------------------------ bounds

\* Largest number of import statements in one file.
MaxImports == 1

\* Largest number of input files handed to parse_with_dependencies.
MaxInputs == 2

\* Largest number of statements of a file handed to FileDescriptor::parse.
MaxStmts == 3

\* ---------------------------------------------------------------- universe

\* Include directories: r and its subdirectory r/s.
DirR == <<"r">>
DirRS == <<"r", "s">>

\* The include path lists handed to the walker.
IncludePathChoices == {<<DirR>>, <<DirRS>>, <<DirR, DirRS>>, <<DirRS, DirR>>}

\* The places of the file system where a file may be.
FsPaths == {<<"r", "a">>, <<"r", "b">>, <<"r", "s", "a">>}

\* The paths import statements name.
ImportTargets == {<<"a">>, <<"b">>}

\* The errors of the core parser.
ParseErrors == {"e1", "e2"}

\* All sequences over S of length at most n.
SeqUpTo(S, n) == UNION {[1..k -> S] : k \in 0..n}

\* ------------------------------------------------------------------- paths

\* Path::strip_prefix succeeds: base is a component-wise prefix of path.
IsPrefix(base, path) ==
    /\ Len(base) <= Len(path)
    /\ SubSeq(path, 1, Len(base)) = base

\* Path::strip_prefix(base), when it succeeds.
StripPrefix(path, base) == SubSeq(path, Len(base) + 1, Len(path))

\* Path::join of a directory and a relative path.
Join(dir, rel) == dir \o rel

\* relative_path_to_protobuf_path: the components are kept.
RelativePathToProtobufPath(rel) == rel

\* Every protobuf path the walker can meet in this universe.
ProtoPaths ==
    ImportTargets \cup
    {StripPrefix(f, d) : <<f, d>> \in
        {x \in FsPaths \X {DirR, DirRS} : IsPrefix(x[2], x[1])}}

\* ------------------------------------------------------------- file system

Absent == [status |-> "absent", imports |-> <<>>, err |-> "none"]
Unreadable == [status |-> "unreadable", imports |-> <<>>, err |-> "none"]

FileContents ==
    {Absent, Unreadable}
    \cup {[status |-> "bad", imports |-> <<>>, err |-> e] : e \in ParseErrors}
    \cup {[status |-> "ok", imports |-> i, err |-> "none"] :
            i \in SeqUpTo(ImportTargets, MaxImports)}

VARIABLES
    fs,            \* the file system: FsPaths -> FileContents
    include_path,  \* ParserState.include_path
    files,         \* the files argument of parse_with_dependencies
    visited,       \* ParserState.visited
    parsed,        \* ParserState.parsed: protobuf path -> FileDescriptorWithContext
    stack,         \* the process_file calls in progress, innermost last
    fileIdx,       \* position of the `for file in files` loop
    result,        \* what parse_with_dependencies returned
    reads,         \* protobuf path -> number of File::open calls made for it
    parses,        \* protobuf path -> number of FileDescriptor::parse calls
    opened,        \* the file system paths File::open was called on
    failure,       \* the step that failed, once one did
    pInput,        \* FileDescriptor::parse: the statements of the file
    pPos,          \* FileDescriptor::parse: the next statement
    pDesc,         \* FileDescriptor::parse: the descriptor being built
    pResult        \* FileDescriptor::parse: the returned value

walkerVars ==
    <<fs, include_path, files, visited, parsed, stack, fileIdx, result,
      reads, parses, opened, failure>>

parserVars == <<pInput, pPos, pDesc, pResult>>

vars == <<walkerVars, parserVars>>

\* Path::exists
Exists(path) == path \in DOMAIN fs /\ fs[path].status # "absent"

\* File::open(path)?.read_to_end(..) succeeds
Readable(path) == path \in DOMAIN fs /\ fs[path].status \in {"bad", "ok"}

\* --------------------------------------------------------------- error type

NoError == [kind |-> "none", detail |-> "none", paths |-> {}]

\* impl From<io::Error>
FromIo(e) == [kind |-> "Io", detail |-> e, paths |-> {}]

FromNomAsOther(e) == [kind |-> "Other", detail |-> e, paths |-> {}]

\* impl From<nom::IError>: the variant holds the parser's error and nothing else
FromNom(e) == [kind |-> "Nom", detail |-> e, paths |-> {}]

\* Other(format!("protobuf include {:?} is not found in include path: {:?}", ..))
NotFoundError(protobuf_path) ==
    [kind |-> "Other", detail |-> "not found in include path",
     paths |-> {protobuf_path}]

\* Other(format!("file {:?} must reside in include path {:?}", ..))
OutsideError(fs_path) ==
    [kind |-> "Other", detail |-> "must reside in include path",
     paths |-> {fs_path}]

NoResult == [tag |-> "None", error |-> NoError, value |-> {}]

\* ------------------------------------------------------------ ParserState

\* The values of the parsed map.
Values(map) == {map[k] : k \in DOMAIN map}

\* HashMap::insert
MapInsert(map, key, value) ==
    [k \in DOMAIN map \cup {key} |-> IF k = key THEN value ELSE map[k]]

NoMatch == [found |-> FALSE, path |-> <<>>]

RECURSIVE ResolveLastFrom(_, _)
ResolveLastFrom(k, protobuf_path) ==
    IF k < 1
    THEN NoMatch
    ELSE IF Exists(Join(include_path[k], protobuf_path))
         THEN [found |-> TRUE, path |-> Join(include_path[k], protobuf_path)]
         ELSE ResolveLastFrom(k - 1, protobuf_path)

ResolveLastExisting(protobuf_path) ==
    ResolveLastFrom(Len(include_path), protobuf_path)

\* The loop of resolve_protobuf_path from include directory k on.
RECURSIVE ResolveFrom(_, _)
ResolveFrom(k, protobuf_path) ==
    IF k > Len(include_path)
    THEN NoMatch
    ELSE IF Exists(Join(include_path[k], protobuf_path))
         THEN [found |-> TRUE, path |-> Join(include_path[k], protobuf_path)]
         ELSE ResolveFrom(k + 1, protobuf_path)

\* ParserState::resolve_protobuf_path: found is FALSE for the Err it returns.
ResolveProtobufPath(protobuf_path) == ResolveFrom(1, protobuf_path)

RECURSIVE StripLastFrom(_, _)
StripLastFrom(k, fs_path) ==
    IF k < 1
    THEN NoMatch
    ELSE IF IsPrefix(include_path[k], fs_path)
         THEN [found |-> TRUE, path |-> StripPrefix(fs_path, include_path[k])]
         ELSE StripLastFrom(k - 1, fs_path)

RelativePathLast(fs_path) == StripLastFrom(Len(include_path), fs_path)

\* include_path.iter().filter_map(strip_prefix).next() from directory k on.
RECURSIVE StripFrom(_, _)
StripFrom(k, fs_path) ==
    IF k > Len(include_path)
    THEN NoMatch
    ELSE IF IsPrefix(include_path[k], fs_path)
         THEN [found |-> TRUE, path |-> StripPrefix(fs_path, include_path[k])]
         ELSE StripFrom(k + 1, fs_path)

\* The relative_path of process_input_file: found is FALSE for None.
RelativePath(fs_path) == StripFrom(1, fs_path)

VisitedInsertAlways(protobuf_path) == TRUE

\* What self.visited.insert(protobuf_path) returns: TRUE when the path was
\* not in the set yet.
VisitedInsert(protobuf_path) == protobuf_path \notin visited

VisitedForgotten(protobuf_path) == visited

\* The visited set after self.visited.insert(protobuf_path).
VisitedWith(protobuf_path) == visited \cup {protobuf_path}

RevisitFlagOverwrite(old, input) == input

\* The input flag of a parsed file after it is visited again.
RevisitFlag(old, input) == IF input THEN TRUE ELSE old

ImportPathsSkipFirst(file_descriptor) ==
    IF file_descriptor.import_paths = <<>>
    THEN <<>>
    ELSE Tail(file_descriptor.import_paths)

\* The import paths the loop of process_file goes through.
ImportPaths(file_descriptor) == file_descriptor.import_paths

\* What parse_with_dependencies returns when a `?` meets Err(e).
ErrResult(e) == [tag |-> "Err", error |-> e, value |-> {}]

\* What parse_with_dependencies returns after the loop over the files.
OkResult == [tag |-> "Ok", error |-> NoError, value |-> Values(parsed)]

\* No step has failed.
NoFailure == [step |-> "none", protobuf_path |-> <<>>, fs_path |-> <<>>, index |-> 0]

\* The step that failed: in process_input_file ("outside"), or in the
\* process_file call of the innermost frame ("read", "parse", "import").
Failure(step, protobuf_path, fs_path) ==
    [step |-> step, protobuf_path |-> protobuf_path, fs_path |-> fs_path,
     index |-> fileIdx]

\* A failed assert!.
PanicResult == [tag |-> "Panic", error |-> NoError, value |-> {}]

\* A call of process_file at its first statement.
Frame(protobuf_path, fs_path, input) ==
    [protobuf_path |-> protobuf_path, fs_path |-> fs_path, input |-> input,
     pc |-> "enter", file_descriptor |-> [import_paths |-> <<>>], i |-> 1]

Running == result.tag = "None"
InCall == Running /\ stack # <<>>
Top == stack[Len(stack)]

\* The stack with its innermost call changed to frame.
SetTop(frame) == [stack EXCEPT ![Len(stack)] = frame]

\* process_file returns Ok(()): its caller goes on, and when the caller is
\* process_input_file the loop over the files moves to the next file.
Return ==
    /\ stack' = SubSeq(stack, 1, Len(stack) - 1)
    /\ fileIdx' = IF Len(stack) = 1 THEN fileIdx + 1 ELSE fileIdx

RaiseAndContinue(e) ==
    /\ result' = result
    /\ stack' = <<>>
    /\ fileIdx' = fileIdx + 1

\* A `?` meets Err(e): every call in progress returns it.
Raise(e) ==
    /\ result' = ErrResult(e)
    /\ stack' = <<>>
    /\ UNCHANGED fileIdx

config == <<fs, include_path, files>>

\* ------------------------------------------------- FileDescriptor::parse

\* The statements a file is made of, one per line.  A message statement
\* stands for every declaration that is parsed without touching the syntax
\* (message, enum, extend, service, option).
Stmts ==
    {[kind |-> "syntax", arg |-> v] : v \in {"proto2", "proto3", "proto4"}}
    \cup {[kind |-> "import", arg |-> "a.proto"],
          [kind |-> "package", arg |-> "pkg"],
          [kind |-> "message", arg |-> "M"],
          [kind |-> "empty", arg |-> ""],
          [kind |-> "junk", arg |-> ""]}

SyntaxDefaultProto3 == "Proto3"

\* impl Default for Syntax
SyntaxDefault == "Proto2"

\* #[derive(Default)] of FileDescriptor: every field at its type's default.
DefaultFileDescriptor ==
    [import_paths |-> <<>>, package |-> "", syntax |-> SyntaxDefault,
     messages |-> <<>>]

NoParseError == [error |-> "none", line |-> 0, col |-> 0]

NoParseResult ==
    [tag |-> "None", value |-> DefaultFileDescriptor, error |-> NoParseError]

\* The match of FileDescriptor::parse on a descriptor next_proto returned.
ParseOk(r) == [tag |-> "Ok", value |-> r, error |-> NoParseError]

\* The match of FileDescriptor::parse on an error next_proto returned: the
\* error with the parser's location.
ParseErr(error, loc) ==
    [tag |-> "Err", value |-> DefaultFileDescriptor,
     error |-> [error |-> error, line |-> loc.line, col |-> loc.col]]

\* Parser::loc: the statement the parser stands at, one statement per line.
Loc == [line |-> pPos, col |-> 1]

\* The syntax a syntax statement names.
SyntaxOf(arg) == IF arg = "proto3" THEN "Proto3" ELSE "Proto2"

Parsing == pResult.tag = "None"
AtStmt == Parsing /\ pPos <= Len(pInput)
Stmt == pInput[pPos]

\* A syntax statement was seen among the first n statements.
SyntaxSeen(n) == \E k \in 1..n : k <= Len(pInput) /\ pInput[k].kind = "syntax"

\* ---------------------------------------------------------------- walker

\* parse_with_dependencies up to its loop: a fresh ParserState.
Init ==
    /\ fs \in [FsPaths -> FileContents]
    /\ include_path \in IncludePathChoices
    /\ files \in SeqUpTo(FsPaths, MaxInputs)
    /\ visited = {}
    /\ parsed = <<>>
    /\ stack = <<>>
    /\ fileIdx = 1
    /\ result = NoResult
    /\ reads = [p \in ProtoPaths |-> 0]
    /\ parses = [p \in ProtoPaths |-> 0]
    /\ opened = {}
    /\ failure = NoFailure
    /\ pInput = <<>>
    /\ pPos = 1
    /\ pDesc = DefaultFileDescriptor
    /\ pResult = NoParseResult

\* process_input_file, the file lies under an include directory: process_file
\* is called with the relative path as its protobuf path.
ProcessInputFile ==
    /\ Running /\ stack = <<>> /\ fileIdx <= Len(files)
    /\ RelativePath(files[fileIdx]).found
    /\ stack' = <<Frame(RelativePathToProtobufPath(RelativePath(files[fileIdx]).path),
                        files[fileIdx], TRUE)>>
    /\ UNCHANGED <<config, visited, parsed, fileIdx, result, reads, parses,
                   opened, failure, parserVars>>

\* process_input_file, the file lies under no include directory.
ProcessInputFileOutside ==
    /\ Running /\ stack = <<>> /\ fileIdx <= Len(files)
    /\ ~RelativePath(files[fileIdx]).found
    /\ Raise(OutsideError(files[fileIdx]))
    /\ failure' = Failure("outside", <<>>, files[fileIdx])
    /\ UNCHANGED <<config, visited, parsed, reads, parses, opened, parserVars>>

\* process_file on a path visited before: mark it as input when asked to and
\* when it is parsed already, and return.
ProcessFileVisited ==
    /\ InCall /\ Top.pc = "enter"
    /\ ~VisitedInsert(Top.protobuf_path)
    /\ parsed' =
         IF Top.protobuf_path \in DOMAIN parsed
         THEN [parsed EXCEPT ![Top.protobuf_path].input =
                   RevisitFlag(parsed[Top.protobuf_path].input, Top.input)]
         ELSE parsed
    /\ Return
    /\ UNCHANGED <<config, visited, result, reads, parses, opened, failure,
                   parserVars>>

\* process_file on a new path: the path joins the visited set.
ProcessFileNew ==
    /\ InCall /\ Top.pc = "enter"
    /\ VisitedInsert(Top.protobuf_path)
    /\ visited' = VisitedWith(Top.protobuf_path)
    /\ stack' = SetTop([Top EXCEPT !.pc = "read"])
    /\ UNCHANGED <<config, parsed, fileIdx, result, reads, parses, opened,
                   failure, parserVars>>

\* File::open(fs_path)?.read_to_end(&mut content)? succeeds.
ReadFile ==
    /\ InCall /\ Top.pc = "read"
    /\ Readable(Top.fs_path)
    /\ reads' = [reads EXCEPT ![Top.protobuf_path] = @ + 1]
    /\ opened' = opened \cup {Top.fs_path}
    /\ stack' = SetTop([Top EXCEPT !.pc = "parse"])
    /\ UNCHANGED <<config, visited, parsed, fileIdx, result, parses, failure,
                   parserVars>>

\* File::open(fs_path)?.read_to_end(&mut content)? fails.
ReadFileFails ==
    /\ InCall /\ Top.pc = "read"
    /\ ~Readable(Top.fs_path)
    /\ reads' = [reads EXCEPT ![Top.protobuf_path] = @ + 1]
    /\ opened' = opened \cup {Top.fs_path}
    /\ Raise(FromIo(IF Exists(Top.fs_path) THEN "read failed" ELSE "not found"))
    /\ failure' = Failure("read", Top.protobuf_path, Top.fs_path)
    /\ UNCHANGED <<config, visited, parsed, parses, parserVars>>

\* FileDescriptor::parse(content)? returns a descriptor.
ParseFile ==
    /\ InCall /\ Top.pc = "parse"
    /\ fs[Top.fs_path].status = "ok"
    /\ parses' = [parses EXCEPT ![Top.protobuf_path] = @ + 1]
    /\ stack' = SetTop([Top EXCEPT
                          !.pc = "imports",
                          !.file_descriptor =
                              [import_paths |-> fs[Top.fs_path].imports],
                          !.i = 1])
    /\ UNCHANGED <<config, visited, parsed, fileIdx, result, reads, opened,
                   failure, parserVars>>

\* FileDescriptor::parse(content)? returns the core parser's error.
ParseFileFails ==
    /\ InCall /\ Top.pc = "parse"
    /\ fs[Top.fs_path].status = "bad"
    /\ parses' = [parses EXCEPT ![Top.protobuf_path] = @ + 1]
    /\ failure' = Failure("parse", Top.protobuf_path, Top.fs_path)
    /\ Raise(FromNom(fs[Top.fs_path].err))
    /\ UNCHANGED <<config, visited, parsed, reads, opened, parserVars>>

\* One turn of the loop over the import paths: the import is resolved and
\* process_file is called on it.
ProcessImport ==
    /\ InCall /\ Top.pc = "imports"
    /\ Top.i <= Len(ImportPaths(Top.file_descriptor))
    /\ LET import_path == ImportPaths(Top.file_descriptor)[Top.i]
           import_fs_path == ResolveProtobufPath(import_path)
       IN  /\ import_fs_path.found
           /\ stack' = Append(SetTop([Top EXCEPT !.i = @ + 1]),
                              Frame(import_path, import_fs_path.path, FALSE))
    /\ UNCHANGED <<config, visited, parsed, fileIdx, result, reads, parses,
                   opened, failure, parserVars>>

\* One turn of the loop over the import paths: the import is in no include
\* directory.
ProcessImportNotFound ==
    /\ InCall /\ Top.pc = "imports"
    /\ Top.i <= Len(ImportPaths(Top.file_descriptor))
    /\ LET import_path == ImportPaths(Top.file_descriptor)[Top.i]
       IN  /\ ~ResolveProtobufPath(import_path).found
           /\ Raise(NotFoundError(import_path))
           /\ failure' = Failure("import", import_path, <<>>)
    /\ UNCHANGED <<config, visited, parsed, reads, parses, opened, parserVars>>

\* After the loop over the import paths: the descriptor is stored, and the
\* assertion that the map held nothing for the path is made.
StoreParsed ==
    /\ InCall /\ Top.pc = "imports"
    /\ Top.i > Len(ImportPaths(Top.file_descriptor))
    /\ parsed' = MapInsert(parsed, Top.protobuf_path,
                           [protobuf_path |-> Top.protobuf_path,
                            file_descriptor |-> Top.file_descriptor,
                            input |-> Top.input])
    /\ IF Top.protobuf_path \in DOMAIN parsed
       THEN /\ result' = PanicResult
            /\ stack' = <<>>
            /\ UNCHANGED fileIdx
       ELSE /\ Return
            /\ UNCHANGED result
    /\ UNCHANGED <<config, visited, reads, parses, opened, failure,
                   parserVars>>

\* parse_with_dependencies after its loop: the parsed descriptors are returned.
Finish ==
    /\ Running /\ stack = <<>> /\ fileIdx > Len(files)
    /\ result' = OkResult
    /\ UNCHANGED <<config, visited, parsed, stack, fileIdx, reads, parses,
                   opened, failure, parserVars>>

Next ==
    \/ ProcessInputFile
    \/ ProcessInputFileOutside
    \/ ProcessFileVisited
    \/ ProcessFileNew
    \/ ReadFile
    \/ ReadFileFails
    \/ ParseFile
    \/ ParseFileFails
    \/ ProcessImport
    \/ ProcessImportNotFound
    \/ StoreParsed
    \/ Finish

Spec == Init /\ [][Next]_vars

\* The walker is one sequential call: it always takes its next step.
FairSpec == Spec /\ WF_vars(Next)

\* ------------------------------------------- FileDescriptor::parse, steps

\* FileDescriptor::parse is handed a file; the walker is not running.
ParseInit ==
    /\ pInput \in SeqUpTo(Stmts, MaxStmts)
    /\ pPos = 1
    /\ pDesc = DefaultFileDescriptor
    /\ pResult = NoParseResult
    /\ fs = [p \in FsPaths |-> Absent]
    /\ include_path = <<DirR>>
    /\ files = <<>>
    /\ visited = {}
    /\ parsed = <<>>
    /\ stack = <<>>
    /\ fileIdx = 1
    /\ result = NoResult
    /\ reads = [p \in ProtoPaths |-> 0]
    /\ parses = [p \in ProtoPaths |-> 0]
    /\ opened = {}
    /\ failure = NoFailure

\* syntax = "proto2" | "proto3" ; as the first statement sets the syntax.
ParseSyntax ==
    /\ AtStmt /\ Stmt.kind = "syntax"
    /\ pPos = 1 /\ Stmt.arg \in {"proto2", "proto3"}
    /\ pDesc' = [pDesc EXCEPT !.syntax = SyntaxOf(Stmt.arg)]
    /\ pPos' = pPos + 1
    /\ UNCHANGED <<pInput, pResult, walkerVars>>

\* import "path" ; appends the path to import_paths.
ParseImport ==
    /\ AtStmt /\ Stmt.kind = "import"
    /\ pDesc' = [pDesc EXCEPT !.import_paths = Append(@, Stmt.arg)]
    /\ pPos' = pPos + 1
    /\ UNCHANGED <<pInput, pResult, walkerVars>>

\* package dotted.name ; at most once.
ParsePackage ==
    /\ AtStmt /\ Stmt.kind = "package"
    /\ pDesc.package = ""
    /\ pDesc' = [pDesc EXCEPT !.package = Stmt.arg]
    /\ pPos' = pPos + 1
    /\ UNCHANGED <<pInput, pResult, walkerVars>>

\* message Name { .. } appends a message.
ParseMessage ==
    /\ AtStmt /\ Stmt.kind = "message"
    /\ pDesc' = [pDesc EXCEPT !.messages = Append(@, Stmt.arg)]
    /\ pPos' = pPos + 1
    /\ UNCHANGED <<pInput, pResult, walkerVars>>

\* ; the empty statement has no effect.
ParseEmpty ==
    /\ AtStmt /\ Stmt.kind = "empty"
    /\ pPos' = pPos + 1
    /\ UNCHANGED <<pInput, pDesc, pResult, walkerVars>>

\* A statement no production accepts: parsing halts there with the error
\* and the location.
ParseReject ==
    /\ AtStmt
    /\ \/ Stmt.kind = "junk"
       \/ Stmt.kind = "syntax" /\ pPos > 1
       \/ Stmt.kind = "syntax" /\ Stmt.arg \notin {"proto2", "proto3"}
       \/ Stmt.kind = "package" /\ pDesc.package # ""
    /\ pResult' =
         ParseErr(CASE Stmt.kind = "junk" -> "UnexpectedToken"
                    [] Stmt.kind = "package" -> "DuplicateDeclaration"
                    [] Stmt.kind = "syntax" /\ pPos > 1 /\ SyntaxSeen(pPos - 1)
                         -> "DuplicateDeclaration"
                    [] Stmt.kind = "syntax" /\ pPos > 1 -> "UnexpectedToken"
                    [] OTHER -> "InvalidSyntaxDeclaration",
                  Loc)
    /\ UNCHANGED <<pInput, pPos, pDesc, walkerVars>>

\* End of input completes the descriptor.
ParseEnd ==
    /\ Parsing /\ pPos > Len(pInput)
    /\ pResult' = ParseOk(pDesc)
    /\ UNCHANGED <<pInput, pPos, pDesc, walkerVars>>

ParseNext ==
    \/ ParseSyntax
    \/ ParseImport
    \/ ParsePackage
    \/ ParseMessage
    \/ ParseEmpty
    \/ ParseReject
    \/ ParseEnd

ParseSpec == ParseInit /\ [][ParseNext]_vars

\* ------------------------------------------------------------ properties

Done == result.tag # "None"
Succeeded == result.tag = "Ok"

\* The elements of a sequence.
Range(seq) == {seq[k] : k \in 1..Len(seq)}

\* The include directories, by position, that are the first prefix of a path.
FirstPrefix(fs_path) ==
    {k \in 1..Len(include_path) :
        /\ IsPrefix(include_path[k], fs_path)
        /\ \A j \in 1..(k - 1) : ~IsPrefix(include_path[j], fs_path)}

\* The include directories, by position, that are the first to hold a
\* protobuf path.
FirstHolding(protobuf_path) ==
    {k \in 1..Len(include_path) :
        /\ Exists(include_path[k] \o protobuf_path)
        /\ \A j \in 1..(k - 1) : ~Exists(include_path[j] \o protobuf_path)}

\* The canonical paths of the supplied input files.
InputCanonicalPaths ==
    UNION {{SubSeq(files[n], Len(include_path[k]) + 1, Len(files[n])) :
                k \in FirstPrefix(files[n])} : n \in 1..Len(files)}

ReturnedPaths == {d.protobuf_path : d \in result.value}

\* The import paths of the returned descriptors of a canonical path.
ImportsOfReturned(p) ==
    UNION {Range(d.file_descriptor.import_paths) :
             d \in {e \in result.value : e.protobuf_path = p}}

\* The least set that holds S and the imports of its returned members.
RECURSIVE ImportClosure(_)
ImportClosure(S) ==
    LET T == S \cup UNION {ImportsOfReturned(p) : p \in S}
    IN  IF T = S THEN S ELSE ImportClosure(T)

\* Every input lies under an include directory, every file is there and
\* parses, and every import of every file is in some include directory.
AllFilesGood ==
    /\ \A n \in 1..Len(files) : FirstPrefix(files[n]) # {}
    /\ \A f \in FsPaths :
          /\ fs[f].status = "ok"
          /\ \A p \in Range(fs[f].imports) : FirstHolding(p) # {}

\* C1: after a successful call a returned descriptor has input = TRUE exactly
\* when its canonical path is the canonical path of a supplied input file,
\* and an input flag that is TRUE is never reset to FALSE by a later visit.
C1_InputFlagMarksInputs ==
    /\ [](Succeeded =>
            \A d \in result.value :
                d.input <=> d.protobuf_path \in InputCanonicalPaths)
    /\ [][\A p \in DOMAIN parsed :
             parsed[p].input => (p \in DOMAIN parsed' /\ parsed'[p].input)]_vars

\* C1's case: the second input was first reached as the import of the first
\* input, and it is returned as an input beside the first.
C1_Witness ==
    /\ Succeeded
    /\ Len(files) = 2
    /\ \E x, y \in result.value :
          /\ x.protobuf_path # y.protobuf_path
          /\ FirstPrefix(files[1]) # {} /\ FirstPrefix(files[2]) # {}
          /\ x.protobuf_path \in {StripPrefix(files[1], include_path[k]) :
                                     k \in FirstPrefix(files[1])}
          /\ y.protobuf_path \in {StripPrefix(files[2], include_path[k]) :
                                     k \in FirstPrefix(files[2])}
          /\ y.protobuf_path \in Range(x.file_descriptor.import_paths)
          /\ x.input /\ y.input

\* C2: no canonical path is stored in the parsed map a second time: the
\* assertion made at the insertion never fails, a call about to store its path
\* finds the map without it, and the returned descriptors have pairwise
\* different canonical paths, one per entry of the map.
C2_NoDuplicateCanonicalPath ==
    /\ result.tag # "Panic"
    /\ \A k \in 1..Len(stack) :
          stack[k].pc = "imports" => stack[k].protobuf_path \notin DOMAIN parsed
    /\ \A p \in DOMAIN parsed : parsed[p].protobuf_path = p
    /\ Succeeded =>
          /\ \A x, y \in result.value :
                x.protobuf_path = y.protobuf_path => x = y
          /\ Cardinality(result.value) = Cardinality(DOMAIN parsed)

\* C2's case: the same file is listed twice and imports itself, and the call
\* returns it once.
C2_Witness ==
    /\ Succeeded
    /\ Len(files) = 2 /\ files[1] = files[2]
    /\ Cardinality(result.value) = 1
    /\ \E d \in result.value :
          d.protobuf_path \in Range(d.file_descriptor.import_paths)

\* What a process_file call in progress still has to do, as a number: a call
\* at its first statement counts 1, a call in its loop counts 1 and 2 for each
\* import left.
FrameMeasure(frame) ==
    CASE frame.pc = "enter" -> 1
      [] frame.pc = "read" -> 2 * MaxImports + 4
      [] frame.pc = "parse" -> 2 * MaxImports + 3
      [] OTHER -> 1 + 2 * (Len(frame.file_descriptor.import_paths) + 1 - frame.i)

RECURSIVE StackMeasure(_)
StackMeasure(n) == IF n = 0 THEN 0 ELSE FrameMeasure(stack[n]) + StackMeasure(n - 1)

\* What the whole call still has to do, as a number: 0 once it has returned.
Measure ==
    IF Done
    THEN 0
    ELSE 1 + StackMeasure(Len(stack))
           + (2 * MaxImports + 4) * Cardinality(ProtoPaths \ visited)
           + 3 * (Len(files) + 1 - fileIdx)
           - (IF stack # <<>> THEN 2 ELSE 0)

\* C3: the call terminates: every step lowers a measure that is a natural
\* number, and the call is never stuck before it has returned.  When every
\* file exists and parses it returns success with every input, and every
\* import of a returned descriptor, in the returned list exactly once, import
\* cycles included, and each of them was parsed once.
C3_CyclesTolerated ==
    /\ [][Measure' < Measure]_vars
    /\ [](Measure >= 0)
    /\ [](Running => ENABLED Next)
    /\ [](Done /\ AllFilesGood =>
            /\ Succeeded
            /\ InputCanonicalPaths \subseteq ReturnedPaths
            /\ \A d \in result.value :
                  /\ Range(d.file_descriptor.import_paths) \subseteq ReturnedPaths
                  /\ Cardinality({e \in result.value :
                                     e.protobuf_path = d.protobuf_path}) = 1
                  /\ parses[d.protobuf_path] = 1)

\* The call returns in every run in which it keeps taking its steps.
Terminates == <>Done

\* C3's case: two files import each other, and both are returned.
C3_Witness ==
    /\ Succeeded /\ AllFilesGood
    /\ \E x, y \in result.value :
          /\ x.protobuf_path # y.protobuf_path
          /\ y.protobuf_path \in Range(x.file_descriptor.import_paths)
          /\ x.protobuf_path \in Range(y.file_descriptor.import_paths)

\* C4: the file of a canonical path is read at most once and parsed at most
\* once, and a path is in the visited set before its file is read.
C4_ReadAndParsedAtMostOnce ==
    /\ \A p \in ProtoPaths :
          /\ reads[p] <= 1
          /\ parses[p] <= reads[p]
          /\ reads[p] >= 1 => p \in visited
    /\ \A k \in 1..Len(stack) :
          stack[k].pc \in {"read", "parse", "imports"} =>
              stack[k].protobuf_path \in visited

\* C4's case: a file is visited again, through its own import, while its
\* imports are being processed, after it was read once.
C4_Witness ==
    /\ Len(stack) = 2
    /\ stack[2].pc = "enter"
    /\ stack[2].protobuf_path = stack[1].protobuf_path
    /\ reads[stack[1].protobuf_path] = 1
    /\ Len(files) = 2 /\ files[1] = files[2]

\* C5: after a successful call the canonical paths of the returned
\* descriptors are the canonical paths of the inputs closed under the import
\* relation of the returned descriptors, and each returned descriptor is the
\* parse of a file held by an include directory under its canonical path.
C5_ReturnedIsImportClosure ==
    Succeeded =>
        /\ ReturnedPaths = ImportClosure(InputCanonicalPaths)
        /\ \A d \in result.value :
              /\ Range(d.file_descriptor.import_paths) \subseteq ReturnedPaths
              /\ \E k \in 1..Len(include_path) :
                    /\ (include_path[k] \o d.protobuf_path) \in opened
                    /\ fs[include_path[k] \o d.protobuf_path].status = "ok"
                    /\ d.file_descriptor.import_paths =
                         fs[include_path[k] \o d.protobuf_path].imports

\* C5's case: one input, its import and the import of its import are
\* returned, and only the first is an input.
C5_Witness ==
    /\ Succeeded
    /\ Len(files) = 1
    /\ Cardinality(result.value) = 3
    /\ Cardinality({d \in result.value : d.input}) = 1

\* C6: a call of process_file made for an import has the path under the first
\* include directory that holds the import; and when the walker fails because
\* an import is not found, no include directory holds it and it was neither
\* read nor parsed.
C6_ImportResolvedInOrder ==
    /\ \A n \in 2..Len(stack) :
          /\ ~stack[n].input
          /\ \E k \in FirstHolding(stack[n].protobuf_path) :
                stack[n].fs_path = include_path[k] \o stack[n].protobuf_path
    /\ failure.step = "import" =>
          /\ result.tag = "Err"
          /\ result.error.kind = "Other"
          /\ result.error.detail = "not found in include path"
          /\ result.error.paths = {failure.protobuf_path}
          /\ \A k \in 1..Len(include_path) :
                /\ ~Exists(include_path[k] \o failure.protobuf_path)
                /\ (include_path[k] \o failure.protobuf_path) \notin opened
          /\ reads[failure.protobuf_path] = 0
          /\ parses[failure.protobuf_path] = 0

\* C6's case: the import is in the first and in the second include directory,
\* and the file of the first is the one read.
C6_Witness ==
    /\ Len(include_path) = 2
    /\ Len(stack) >= 2
    /\ stack[Len(stack)].pc = "parse"
    /\ stack[Len(stack)].fs_path = include_path[1] \o stack[Len(stack)].protobuf_path
    /\ Exists(include_path[2] \o stack[Len(stack)].protobuf_path)
    /\ stack[Len(stack)].fs_path \in opened
    /\ (include_path[2] \o stack[Len(stack)].protobuf_path) \notin opened

\* C7: the canonical path of an input file is what is left of its path after
\* the first include directory that is a prefix of it; and when no include
\* directory is a prefix the call fails with an error that names the file,
\* the file is not read and the failing step leaves the visited set and the
\* read and parse counts as they were.
C7_InputCanonicalPath ==
    /\ [](stack # <<>> =>
            /\ stack[1].input
            /\ stack[1].fs_path = files[fileIdx]
            /\ \E k \in FirstPrefix(files[fileIdx]) :
                  stack[1].protobuf_path =
                      SubSeq(files[fileIdx], Len(include_path[k]) + 1,
                             Len(files[fileIdx])))
    /\ [][(Running /\ stack = <<>> /\ fileIdx <= Len(files)
              /\ FirstPrefix(files[fileIdx]) = {}) =>
             failure'.step = "outside"]_vars
    /\ [](failure.step = "outside" =>
            /\ result.tag = "Err"
            /\ result.error.kind = "Other"
            /\ result.error.paths = {files[fileIdx]}
            /\ FirstPrefix(files[fileIdx]) = {}
            /\ files[fileIdx] \notin opened)
    /\ [][failure'.step = "outside" /\ failure.step = "none" =>
             /\ visited' = visited
             /\ reads' = reads
             /\ parses' = parses
             /\ opened' = opened]_vars

\* C7's case: two different include directories are prefixes of the input,
\* and the suffix after the first is the canonical path.
C7_Witness ==
    /\ Len(stack) = 1
    /\ stack[1].pc = "read"
    /\ Len(include_path) = 2
    /\ include_path[1] # include_path[2]
    /\ IsPrefix(include_path[1], stack[1].fs_path)
    /\ IsPrefix(include_path[2], stack[1].fs_path)
    /\ stack[1].protobuf_path = StripPrefix(stack[1].fs_path, include_path[1])
    /\ stack[1].protobuf_path # StripPrefix(stack[1].fs_path, include_path[2])

\* C8, as claimed: when the core parser rejects a file, the returned error is
\* a parse failure that wraps the parser's error and is tagged with the
\* canonical path of the rejected file.
C8_AsClaimed ==
    failure.step = "parse" =>
        /\ result.tag = "Err"
        /\ result.error.kind = "Nom"
        /\ result.error.detail = fs[failure.fs_path].err
        /\ failure.protobuf_path \in result.error.paths

\* C8, amended: when the core parser rejects a file, the returned error is a
\* parse failure that wraps the parser's error for that file and names no
\* path; and the walker returns a parse failure in no other case.
C8_ParseFailureWrapsParserError ==
    /\ failure.step = "parse" =>
          /\ result.tag = "Err"
          /\ result.error.kind = "Nom"
          /\ fs[failure.fs_path].status = "bad"
          /\ result.error.detail = fs[failure.fs_path].err
          /\ result.error.paths = {}
    /\ result.error.kind = "Nom" => failure.step = "parse"

\* C8's case: the rejected file is an import, not an input, and another file
\* with another parser error was parsed before it.
C8_Witness ==
    /\ failure.step = "parse"
    /\ result.error.kind = "Nom"
    /\ failure.protobuf_path \notin InputCanonicalPaths
    /\ \E f \in FsPaths :
          fs[f].status = "bad" /\ fs[f].err # result.error.detail

\* C9: while no syntax statement was met the descriptor's syntax is Proto2,
\* the default of Syntax and of a default FileDescriptor; so a file parsed
\* with no syntax statement gets a descriptor whose syntax is Proto2.
C9_DefaultSyntaxProto2 ==
    /\ DefaultFileDescriptor.syntax = "Proto2"
    /\ ~SyntaxSeen(pPos - 1) => pDesc.syntax = "Proto2"
    /\ (pResult.tag = "Ok" /\ ~SyntaxSeen(Len(pInput))) =>
          pResult.value.syntax = "Proto2"

\* C9's case: a file of several statements, none of them a syntax statement,
\* was parsed.
C9_Witness ==
    /\ pResult.tag = "Ok"
    /\ Len(pInput) >= 2
    /\ ~SyntaxSeen(Len(pInput))
    /\ pResult.value.import_paths # <<>>
    /\ pResult.value.syntax = "Proto2"

====
